---- MODULE Spec2Model ----
(***************************************************************************)
(* Model of the Telegram homework-order bot (src/telegram_homework_bot).   *)
(*                                                                         *)
(* State: the SQLite tables of database.py (orders, user_states, admins),  *)
(* the in-memory state of handlers.py (DECLINE_REASON_WAITLIST, each       *)
(* user's context.user_data, the ConversationHandler's per-(chat,user)     *)
(* state) and a record of the last update handled (what was sent, how the  *)
(* handler ended).                                                         *)
(*                                                                         *)
(* One action per inbound update.  bot.py:30 builds the Application with   *)
(* its defaults, so updates are handled one at a time, each handler        *)
(* running to its end (or to the exception that ends it) before the next   *)
(* update is taken: an action is a whole handler run.                      *)
(*                                                                         *)
(* Three specifications:                                                   *)
(*   Spec          the code as it is in src/, started on a store that may  *)
(*                 hold an order (orders.db outlives the process and the   *)
(*                 code, database.py:60-151), every update arriving;       *)
(*   SpecRepaired  the same handlers with the two call mismatches that end *)
(*                 every run of them repaired (get_order selecting the     *)
(*                 columns it reads, main_menu_keyboard taking is_admin),  *)
(*                 started on the same stores, the updates of the order    *)
(*                 lifecycle arriving.  It shows what the lifecycle        *)
(*                 handlers do past the lookup, which Spec never reaches.  *)
(*   SpecIntake    the repaired handlers started on a store that holds one *)
(*                 completed order, the updates of the intake conversation *)
(*                 and restarts of the process arriving.  It shows the     *)
(*                 intake past /start.                                     *)
(***************************************************************************)
EXTENDS Integers, Sequences, FiniteSets, TLC

VARIABLES
    build,        \* "shipped" (src/ as it is) or "repaired"; never changes
    orders,       \* table orders: sequence of rows, order_id = index
    user_states,  \* table user_states: user_id -> [state, data] or NoState
    admins,       \* table admins: set of user ids
    conv,         \* ConversationHandler state per <<chat, user>>
    user_data,    \* context.user_data per user
    waitlist,     \* DECLINE_REASON_WAITLIST: prompt message id -> payload
    prompts,      \* number of decline-reason prompts the group has received
    last          \* the last update handled: event, outcome, messages issued

vars == <<build, orders, user_states, admins, conv, user_data, waitlist, prompts, last>>

----------------------------------------------------------------------------
(* Bounds of the model.                                                    *)

\* rows the table orders may hold
MaxOrders == 2
\* decline-reason prompts the group chat may receive
MaxPrompts == 2
\* latest value of CURRENT_TIMESTAMP
MaxTime == 1

----------------------------------------------------------------------------
(* Values.  SQL NULL / Python None is NULL in a text column and 0 in an    *)
(* integer or timestamp column.                                            *)

NULL == "NULL"
NoId == 0
\* None in a free-text column or field (texts are sequences of characters)
NoText == <<"NULL">>

\* database.py:123, the admin seeded by initialize()
BootstrapAdmin == 796537086

Student == 1
Users == {Student, 2, 3, BootstrapAdmin}

\* user.username: user 3 has no username
Username(u) ==
    CASE u = Student -> "stud"
      [] u = 2 -> "exec2"
      [] u = 3 -> NULL
      [] OTHER -> "root"

Chats == {"private", "group"}

Times == 1..MaxTime

----------------------------------------------------------------------------
(* Texts: message.text is a sequence of characters, so that str.strip()    *)
(* and str.replace() are computed and not assumed.                         *)

IsSpace(c) == c \in {" ", "\n"}

RECURSIVE lstrip(_)
lstrip(s) == IF s # <<>> /\ IsSpace(Head(s)) THEN lstrip(Tail(s)) ELSE s

RECURSIVE rstrip(_)
rstrip(s) ==
    IF s # <<>> /\ IsSpace(s[Len(s)]) THEN rstrip(SubSeq(s, 1, Len(s) - 1)) ELSE s

\* a strip() that returns its argument
strip_nothing(s) == s

\* str.strip()
strip(s) == rstrip(lstrip(s))

----------------------------------------------------------------------------
(* database.py                                                             *)

\* context.user_data: one field per key the handlers use (absent = NULL)
EmptyData ==
    [user_id |-> NoId, username |-> NULL, order_type |-> NULL,
     order_type_label |-> NULL, subject |-> NoText, description |-> NoText,
     file_id |-> NULL, file_type |-> NULL, additional_info |-> NoText,
     deadline |-> NoText, budget |-> NoText, admin_action |-> NULL,
     payment_upload_order |-> NoId]

\* what an exception leaves instead of a value
Raise == [raised |-> TRUE]
Absent == [raised |-> FALSE]

\* data["k"] for the keys create_order reads with [] (KeyError when absent)
create_order_missing_key(data) ==
    \/ data.user_id = NoId
    \/ (data.order_type_label = NULL /\ data.order_type = NULL)
    \/ data.subject = NoText
    \/ data.description = NoText
    \/ data.budget = NoText

\* the row INSERT INTO orders (...) creates: the columns not listed take their
\* defaults (status 'pending', payment_status 'not_requested', the rest NULL)
InsertedRow(data) ==
    [user_id |-> data.user_id, username |-> data.username,
     order_type |-> IF data.order_type_label # NULL THEN data.order_type_label
                    ELSE data.order_type,
     subject |-> data.subject, description |-> data.description,
     file_id |-> data.file_id, file_type |-> data.file_type,
     additional_info |-> data.additional_info, deadline |-> data.deadline,
     budget |-> data.budget,
     status |-> "pending", executor_id |-> NoId, executor_username |-> NULL,
     group_message_id |-> NoId, decline_reason |-> NoText,
     payment_status |-> "not_requested",
     payment_receipt_file_id |-> NULL, payment_receipt_type |-> NULL,
     payment_submitted_at |-> 0, payment_reviewed_by |-> NoId,
     payment_reviewed_at |-> 0, payment_notes |-> NULL, completed_at |-> 0]

\* Database.create_order: the table after the INSERT (order_id = lastrowid is
\* the new length: AUTOINCREMENT, and no statement deletes an order)
create_order_reusing(tbl, data) ==
    IF tbl = <<>> THEN <<InsertedRow(data)>>
    ELSE [tbl EXCEPT ![Len(tbl)] = InsertedRow(data)]
create_order(tbl, data) == Append(tbl, InsertedRow(data))

\* COALESCE(?, column) for the three kinds of column
CoalesceId(new, old) == IF new # NoId THEN new ELSE old
CoalesceTag(new, old) == IF new # NULL THEN new ELSE old
CoalesceText(new, old) == IF new # NoText THEN new ELSE old

\* Database.store_group_message
store_group_message(tbl, id, message_id) ==
    IF id \in DOMAIN tbl
    THEN [tbl EXCEPT ![id].group_message_id = message_id]
    ELSE tbl

\* Database.update_order_status: the write is not conditional on the status
update_order_status(tbl, id, status, executor_id, executor_username, decline_reason) ==
    IF id \in DOMAIN tbl
    THEN [tbl EXCEPT ![id].status = status,
                     ![id].executor_id = CoalesceId(executor_id, @),
                     ![id].executor_username = CoalesceTag(executor_username, @),
                     ![id].decline_reason = CoalesceText(decline_reason, @)]
    ELSE tbl

\* Database.save_payment_receipt: WHERE order_id = ? AND user_id = ?
save_payment_receipt(tbl, id, file_id, file_type, submitted_by, now) ==
    IF id \in DOMAIN tbl /\ tbl[id].user_id = submitted_by
    THEN [tbl EXCEPT ![id].payment_status = "submitted",
                     ![id].payment_receipt_file_id = file_id,
                     ![id].payment_receipt_type = file_type,
                     ![id].payment_submitted_at = now]
    ELSE tbl

\* Database.update_payment_status
update_payment_status(tbl, id, status, reviewer_id, notes, now) ==
    IF id \in DOMAIN tbl
    THEN [tbl EXCEPT ![id].payment_status = status,
                     ![id].payment_reviewed_by = CoalesceId(reviewer_id, @),
                     ![id].payment_reviewed_at = IF reviewer_id = NoId THEN @ ELSE now,
                     ![id].payment_notes = CoalesceTag(notes, @)]
    ELSE tbl

\* Database.mark_order_completed
mark_order_completed(tbl, id, now) ==
    IF id \in DOMAIN tbl
    THEN [tbl EXCEPT ![id].status = "completed", ![id].completed_at = now]
    ELSE tbl

\* the columns get_order's SELECT lists (database.py:241-259); the repaired
\* build lists every column it reads
SelectedColumns(b) ==
    {"order_id", "user_id", "username", "first_name", "last_name", "order_type",
     "subject", "description", "file_id", "file_type", "additional_info",
     "deadline", "budget", "status", "executor_id", "executor_username",
     "group_message_id", "decline_reason"}
    \cup (IF b = "repaired"
          THEN {"payment_status", "payment_receipt_file_id", "payment_receipt_type",
                "payment_submitted_at", "payment_reviewed_by", "payment_reviewed_at",
                "payment_notes", "completed_at"}
          ELSE {})

\* the keys get_order reads from the fetched row (database.py:268-295)
RecordColumns ==
    {"order_id", "user_id", "username", "first_name", "last_name", "order_type",
     "subject", "description", "file_id", "file_type", "additional_info",
     "deadline", "budget", "status", "executor_id", "executor_username",
     "group_message_id", "decline_reason", "payment_status",
     "payment_receipt_file_id", "payment_receipt_type", "payment_submitted_at",
     "payment_reviewed_by", "payment_reviewed_at", "payment_notes", "completed_at"}

\* Database.get_order: None when there is no row; for a row, row["k"] of a
\* column the SELECT did not list raises IndexError (sqlite3.Row)
get_order(b, tbl, id) ==
    IF id \notin DOMAIN tbl THEN Absent
    ELSE IF RecordColumns \subseteq SelectedColumns(b) THEN tbl[id]
    ELSE Raise

\* Database.initialize: INSERT OR IGNORE of the bootstrap admin
initialize_without_bootstrap(adm) == adm
initialize(adm) == adm \cup {BootstrapAdmin}

\* Database.add_admin (INSERT OR REPLACE) / remove_admin (DELETE)
add_admin(adm, u) == adm \cup {u}
remove_admin(adm, u) == adm \ {u}

\* Database.is_admin
is_admin_anyone(adm, u) == TRUE
is_admin(adm, u) == u \in adm

----------------------------------------------------------------------------
(* The transport (Telegram).  Every call is a request that may fail with a *)
(* TelegramError; which channels fail during one update is an input of the *)
(* action (down).  A message is recorded as issued when the handler        *)
(* reaches the call.                                                       *)

Channels == {"edit", "dm", "group"}

Msg(ch, what) == [ch |-> ch, what |-> what]

\* the record of one handled update: who sent what, the order's status before
\* it, how the handler ended, the requests it made and those that failed
Handled(ev, by, o, res, out, down) ==
    [ev |-> ev, by |-> by, order |-> o,
     pre |-> IF o \in DOMAIN orders THEN orders[o].status ELSE "absent",
     res |-> res, out |-> out, failed |-> {m \in out : m.ch \in down},
     fallback |-> FALSE, arg |-> NULL, reply |-> NoId, text |-> NoText]

\* error_handler: the exception is logged and GENERIC_ERROR_MESSAGE is sent as
\* a reply in the chat of the update
Crashed(ev, by, o, out, ch, down) ==
    Handled(ev, by, o, "error", out \cup {Msg(ch, "generic_error")}, down)

\* the record of an update that carries a callback argument / that is a reply
\* with a text to a message the bot is waiting on
WithArg(rec, arg) == [rec EXCEPT !.arg = arg]
WithReply(rec, reply_id, text) == [rec EXCEPT !.reply = reply_id, !.text = text]

\* a dict with key k set / removed
DictSet(d, k, v) == [x \in DOMAIN d \cup {k} |-> IF x = k THEN v ELSE d[x]]
DictDrop_nothing(d, ks) == d
DictDrop(d, ks) == [x \in DOMAIN d \ ks |-> d[x]]

----------------------------------------------------------------------------
(* handlers.py: the order lifecycle                                        *)

\* an accept whose edit of the order card is outside the try block
handle_order_accept_edit_uncaught(u, o, down) ==
    LET order == get_order(build, orders, o)
        t1 == update_order_status(orders, o, "awaiting_payment", u, Username(u), NoText)
        t2 == update_payment_status(t1, o, "requested", NoId, NULL, 0)
        sent == {Msg("edit", "order_accepted"), Msg("dm", "order_accepted"),
                 Msg("dm", "payment_request"), Msg("group", "order_taken")}
    IN  /\ UNCHANGED <<build, user_states, admins, conv, user_data, waitlist, prompts>>
        /\ IF order \in {Raise, Absent}
              \/ order.status \notin {"pending", "awaiting_decline_reason"}
           THEN /\ orders' = orders
                /\ last' = Handled("accept", u, o, "already_processed",
                                   {Msg("alert", "already_processed")}, down)
           ELSE /\ orders' = t2
                /\ last' = IF "edit" \in down
                           THEN Crashed("accept", u, o, {Msg("edit", "order_accepted")},
                                        "group", down)
                           ELSE IF "group" \in down
                           THEN Crashed("accept", u, o, sent, "group", down)
                           ELSE Handled("accept", u, o, "ok", sent, down)

\* handle_order_accept: callback order_accept:<o> pressed by u in the group
handle_order_accept(u, o, down) ==
    LET order == get_order(build, orders, o)
        t1 == update_order_status(orders, o, "awaiting_payment", u, Username(u), NoText)
        t2 == update_payment_status(t1, o, "requested", NoId, NULL, 0)
        sent == {Msg("edit", "order_accepted"), Msg("dm", "order_accepted"),
                 Msg("dm", "payment_request"), Msg("group", "order_taken")}
    IN  /\ UNCHANGED <<build, user_states, admins, conv, user_data, waitlist, prompts>>
        /\ IF order = Raise
           THEN /\ orders' = orders
                /\ last' = Crashed("accept", u, o, {}, "group", down)
           ELSE IF order = Absent
           THEN /\ orders' = orders
                /\ last' = IF "edit" \in down
                           THEN Crashed("accept", u, o, {Msg("edit", "order_not_found")},
                                        "group", down)
                           ELSE Handled("accept", u, o, "not_found",
                                        {Msg("edit", "order_not_found")}, down)
           ELSE IF order.status \notin {"pending", "awaiting_decline_reason"}
           THEN /\ orders' = orders
                /\ last' = Handled("accept", u, o, "already_processed",
                                   {Msg("alert", "already_processed")}, down)
           ELSE /\ orders' = t2
                /\ last' = IF "group" \in down
                           THEN Crashed("accept", u, o, sent, "group", down)
                           ELSE Handled("accept", u, o, "ok", sent, down)

\* a decline that neither looks at the status nor drops the order's entries
handle_order_decline_unguarded(u, o, down) ==
    /\ UNCHANGED <<build, orders, user_states, admins, conv, user_data>>
    /\ waitlist' = DictSet(waitlist, prompts + 1, [order_id |-> o, executor_id |-> u])
    /\ prompts' = prompts + 1
    /\ last' = Handled("decline", u, o, "ok", {Msg("group", "reason_prompt")}, down)

\* handle_order_decline: callback order_decline:<o> pressed by u in the group
handle_order_decline(u, o, down) ==
    LET order == get_order(build, orders, o)
        purged == DictDrop(waitlist, {m \in DOMAIN waitlist : waitlist[m].order_id = o})
        prompt_id == prompts + 1
        edits == {Msg("edit", "remove_buttons"), Msg("edit", "reason_pending")}
    IN  /\ UNCHANGED <<build, user_states, admins, conv, user_data>>
        /\ IF order = Raise
           THEN /\ UNCHANGED <<orders, waitlist, prompts>>
                /\ last' = Crashed("decline", u, o, {}, "group", down)
           ELSE IF order = Absent
           THEN /\ UNCHANGED <<orders, waitlist, prompts>>
                /\ last' = IF "edit" \in down
                           THEN Crashed("decline", u, o, {Msg("edit", "order_not_found")},
                                        "group", down)
                           ELSE Handled("decline", u, o, "not_found",
                                        {Msg("edit", "order_not_found")}, down)
           ELSE IF order.status # "pending"
           THEN /\ UNCHANGED <<orders, waitlist, prompts>>
                /\ last' = Handled("decline", u, o, "already_processed",
                                   {Msg("alert", "already_processed")}, down)
           ELSE /\ orders' = update_order_status(orders, o, "awaiting_decline_reason",
                                                 u, Username(u), NoText)
                /\ IF "group" \in down
                   THEN \* the prompt is not delivered: send_message raises
                        /\ waitlist' = purged
                        /\ prompts' = prompts
                        /\ last' = Crashed("decline", u, o,
                                           edits \cup {Msg("group", "reason_prompt")},
                                           "group", down)
                   ELSE /\ waitlist' = DictSet(purged, prompt_id,
                                               [order_id |-> o, executor_id |-> u])
                        /\ prompts' = prompt_id
                        /\ last' = Handled("decline", u, o, "ok",
                                           edits \cup {Msg("group", "reason_prompt"),
                                                       Msg("alert", "state_reason")},
                                           down)

\* a refusal that does not look at the sender
reply_refused_blank_only(sender, executor_id, reason_text) ==
    reason_text = <<>>

\* handlers.py:1012-1019: the reply is refused when its sender is not the
\* executor of the payload or its text is blank
reply_refused(sender, executor_id, reason_text) ==
    sender # executor_id \/ reason_text = <<>>

\* handle_decline_reason_message: u replies in the group to message reply_id;
\* text is message.text (NoText for a message without text)
handle_decline_reason_message(u, reply_id, text, down) ==
    LET payload == waitlist[reply_id]
        o == payload.order_id
        reason_text == IF text # NoText THEN strip(text) ELSE <<>>
        order == get_order(build, orders, o)
        Replied(rec) == WithReply(rec, reply_id, text)
    IN  /\ UNCHANGED <<build, user_states, admins, conv, user_data, prompts>>
        /\ IF reply_id \notin DOMAIN waitlist
           THEN /\ UNCHANGED <<orders, waitlist>>
                /\ last' = Replied(Handled("reason", u, NoId, "ignored", {}, down))
           ELSE IF reply_refused(u, payload.executor_id, reason_text)
           THEN /\ UNCHANGED <<orders, waitlist>>
                /\ last' = Replied(
                     IF "group" \in down
                     THEN Crashed("reason", u, o, {Msg("group", "reason_required")},
                                  "group", down)
                     ELSE Handled("reason", u, o, "reason_required",
                                  {Msg("group", "reason_required")}, down))
           ELSE IF order = Raise
           THEN /\ UNCHANGED <<orders, waitlist>>
                /\ last' = Replied(Crashed("reason", u, o, {}, "group", down))
           ELSE IF order = Absent
           THEN /\ UNCHANGED <<orders, waitlist>>
                /\ last' = Replied(
                     IF "group" \in down
                     THEN Crashed("reason", u, o, {Msg("group", "order_not_found")},
                                  "group", down)
                     ELSE Handled("reason", u, o, "not_found",
                                  {Msg("group", "order_not_found")}, down))
           ELSE /\ orders' = update_order_status(orders, o, "declined", NoId, NULL,
                                                 reason_text)
                /\ waitlist' = DictDrop(waitlist, {reply_id})
                /\ last' = Replied(Handled("reason", u, o, "ok",
                                           {Msg("edit", "order_declined"),
                                            Msg("dm", "order_declined")}, down))

\* order.user_id != user.id: the sender is not the requester of the order
not_requester_never(order, u) == FALSE
not_requester(order, u) == order.user_id # u

\* handle_payment_upload_request: callback payment_upload:<o> pressed by u
\* under the payment request in u's private chat
handle_payment_upload_request(u, o, down) ==
    LET order == get_order(build, orders, o)
    IN  /\ UNCHANGED <<build, orders, user_states, admins, conv, waitlist, prompts>>
        /\ IF order = Raise
           THEN /\ user_data' = user_data
                /\ last' = Crashed("upload", u, o, {}, "dm", down)
           ELSE IF order = Absent \/ not_requester(order, u)
           THEN /\ user_data' = user_data
                /\ last' = Handled("upload", u, o, "not_yours",
                                   {Msg("alert", "not_your_order")}, down)
           ELSE IF order.status \notin {"awaiting_payment", "payment_review"}
           THEN /\ user_data' = user_data
                /\ last' = Handled("upload", u, o, "not_required",
                                   {Msg("alert", "no_receipt_required")}, down)
           ELSE /\ user_data' = [user_data EXCEPT ![u].payment_upload_order = o]
                /\ last' = IF "dm" \in down
                           THEN Crashed("upload", u, o, {Msg("dm", "receipt_prompt")},
                                        "dm", down)
                           ELSE Handled("upload", u, o, "ok",
                                        {Msg("dm", "receipt_prompt")}, down)

\* handle_payment_receipt_submission: u sends a file in the private chat
handle_payment_receipt_submission(u, file, now, down) ==
    LET o == user_data[u].payment_upload_order
        order == get_order(build, orders, o)
        t1 == save_payment_receipt(orders, o, file.file_id, file.file_type, u, now)
        t2 == update_order_status(t1, o, "payment_review", NoId, NULL, NoText)
        t3 == update_payment_status(t2, o, "submitted", NoId, NULL, now)
        popped == [user_data EXCEPT ![u].payment_upload_order = NoId]
    IN  /\ UNCHANGED <<build, user_states, admins, conv, waitlist, prompts>>
        /\ IF o = NoId
           THEN /\ UNCHANGED <<orders, user_data>>
                /\ last' = Handled("receipt", u, NoId, "ignored", {}, down)
           ELSE IF order = Raise
           THEN /\ UNCHANGED <<orders, user_data>>
                /\ last' = Crashed("receipt", u, o, {}, "dm", down)
           ELSE IF order = Absent \/ not_requester(order, u)
           THEN /\ orders' = orders
                /\ IF "dm" \in down
                   THEN /\ user_data' = user_data
                        /\ last' = Crashed("receipt", u, o, {Msg("dm", "no_match")},
                                           "dm", down)
                   ELSE /\ user_data' = popped
                        /\ last' = Handled("receipt", u, o, "no_match",
                                           {Msg("dm", "no_match")}, down)
           ELSE /\ orders' = t3
                /\ user_data' = popped
                /\ last' =
                     IF "dm" \in down
                     THEN Crashed("receipt", u, o, {Msg("dm", "receipt_received")},
                                  "dm", down)
                     ELSE IF "group" \in down
                     THEN Crashed("receipt", u, o,
                                  {Msg("dm", "receipt_received"), Msg("group", "receipt_file"),
                                   Msg("group", "review_prompt")}, "dm", down)
                     ELSE Handled("receipt", u, o, "ok",
                                  {Msg("dm", "receipt_received"), Msg("group", "receipt_file"),
                                   Msg("group", "review_prompt")}, down)

\* handle_payment_review_callback: callback payment_review:<o>:<decision>
\* pressed by u under a review prompt in the group
handle_payment_review_callback(u, o, decision, now, down) ==
    LET order == get_order(build, orders, o)
        a1 == update_payment_status(orders, o, "confirmed", u, NULL, now)
        a2 == update_order_status(a1, o, "in_progress", NoId, NULL, NoText)
        r1 == update_payment_status(orders, o, "rejected", u, NULL, now)
        r2 == update_order_status(r1, o, "awaiting_payment", NoId, NULL, NoText)
        sent == (IF decision = "approve" THEN {} ELSE {Msg("dm", "payment_request")})
                \cup {Msg("edit", "review_decision"), Msg("dm", "payment_" \o decision),
                      Msg("group", "payment_" \o decision)}
    IN  /\ UNCHANGED <<build, user_states, admins, conv, user_data, waitlist, prompts>>
        /\ IF ~is_admin(admins, u)
           THEN /\ orders' = orders
                /\ last' = WithArg(Handled("review", u, o, "denied",
                                           {Msg("alert", "admin_only")}, down),
                                   decision)
           ELSE IF order = Raise
           THEN /\ orders' = orders
                /\ last' = WithArg(Crashed("review", u, o, {}, "group", down), decision)
           ELSE IF order = Absent
           THEN /\ orders' = orders
                /\ last' = WithArg(Handled("review", u, o, "not_found",
                                           {Msg("alert", "order_not_found")}, down),
                                   decision)
           ELSE /\ orders' = IF decision = "approve" THEN a2 ELSE r2
                /\ last' = WithArg(IF "group" \in down
                                   THEN Crashed("review", u, o, sent, "group", down)
                                   ELSE Handled("review", u, o, "ok", sent, down),
                                   decision)

\* handle_admin_manage_callback, data admin_complete:<o>, pressed by u in the
\* private chat with the bot
handle_admin_complete(u, o, now, down) ==
    LET order == get_order(build, orders, o)
    IN  /\ UNCHANGED <<build, user_states, admins, conv, user_data, waitlist, prompts>>
        /\ IF ~is_admin(admins, u)
           THEN /\ orders' = orders
                /\ last' = Handled("complete", u, o, "denied",
                                   {Msg("alert", "admin_only")}, down)
           ELSE IF order = Raise
           THEN /\ orders' = orders
                /\ last' = Crashed("complete", u, o, {}, "dm", down)
           ELSE IF order = Absent
           THEN /\ orders' = orders
                /\ last' = IF "dm" \in down
                           THEN Crashed("complete", u, o, {Msg("dm", "order_not_found")},
                                        "dm", down)
                           ELSE Handled("complete", u, o, "not_found",
                                        {Msg("dm", "order_not_found")}, down)
           ELSE /\ orders' = mark_order_completed(orders, o, now)
                /\ last' =
                     LET edit == IF order.group_message_id # NoId
                                 THEN {Msg("edit", "order_completed")} ELSE {}
                         upto_group == edit \cup {Msg("dm", "order_completed"),
                                                  Msg("group", "order_completed")}
                     IN  IF "group" \in down
                         THEN Crashed("complete", u, o, upto_group, "dm", down)
                         ELSE IF "dm" \in down
                         THEN Crashed("complete", u, o,
                                      upto_group \cup {Msg("dm", "marked_completed")},
                                      "dm", down)
                         ELSE Handled("complete", u, o, "ok",
                                      upto_group \cup {Msg("dm", "marked_completed")},
                                      down)

\* handle_admin_menu_callback for admin_menu:broadcast: the pending action is
\* set before the prompt is sent
handle_admin_menu_callback(u, down) ==
    /\ UNCHANGED <<build, orders, user_states, admins, conv, waitlist, prompts>>
    /\ IF ~is_admin(admins, u)
       THEN /\ user_data' = user_data
            /\ last' = WithArg(Handled("admin_menu", u, NoId, "denied",
                                       {Msg("alert", "admin_only")}, down), "broadcast")
       ELSE /\ user_data' = [user_data EXCEPT ![u].admin_action = "broadcast"]
            /\ last' = WithArg(IF "dm" \in down
                               THEN Crashed("admin_menu", u, NoId,
                                            {Msg("dm", "broadcast_prompt")}, "dm", down)
                               ELSE Handled("admin_menu", u, NoId, "ok",
                                            {Msg("dm", "broadcast_prompt")}, down),
                               "broadcast")

\* target_id == query.from_user.id: the admin to remove is the one who asks
removes_self_never(target, u) == FALSE
removes_self(target, u) == target = u

\* handle_admin_manage_callback for admin_add:start (target = NoId) and for
\* admin_remove:<target>
handle_admin_manage_callback(u, target, down) ==
    LET ended(res, what) ==
            WithArg(IF "dm" \in down
                    THEN Crashed("admin_manage", u, NoId, {Msg("dm", what)}, "dm", down)
                    ELSE Handled("admin_manage", u, NoId, res, {Msg("dm", what)}, down),
                    target)
    IN  /\ UNCHANGED <<build, orders, user_states, conv, waitlist, prompts>>
        /\ IF ~is_admin(admins, u)
           THEN /\ UNCHANGED <<admins, user_data>>
                /\ last' = WithArg(Handled("admin_manage", u, NoId, "denied",
                                           {Msg("alert", "admin_only")}, down), target)
           ELSE IF target = NoId
           THEN /\ admins' = admins
                /\ user_data' = [user_data EXCEPT ![u].admin_action = "add_admin"]
                /\ last' = ended("ok", "add_prompt")
           ELSE IF removes_self(target, u)
           THEN /\ UNCHANGED <<admins, user_data>>
                /\ last' = ended("refused", "cannot_remove_self")
           ELSE /\ admins' = remove_admin(admins, target)
                /\ user_data' = user_data
                /\ last' = ended("removed", "admin_removed")

----------------------------------------------------------------------------
(* handlers.py: the intake conversation                                    *)

\* the conversation states (STATE_NAMES) whose handler takes a text message;
\* NULL is "no conversation" (the key is absent)
TextStates == {"ENTERING_SUBJECT", "ENTERING_DESCRIPTION", "ENTERING_ADDITIONAL",
               "ENTERING_DEADLINE", "ENTERING_BUDGET"}

\* ORDER_TYPES.get(order_type)
ORDER_TYPES(order_type) ==
    CASE order_type = "homework" -> "label_homework"
      [] order_type = "eclass" -> "label_eclass"
      [] order_type = "project" -> "label_project"
      [] order_type = "laboratory" -> "label_laboratory"
      [] OTHER -> NULL

\* the row user_states has for nobody
NoState == [state |-> NULL, data |-> EmptyData]

\* Database.set_user_state / clear_user_state
set_user_state(tbl, u, state, data) ==
    [tbl EXCEPT ![u] = [state |-> state, data |-> data]]
clear_user_state(tbl, u) == [tbl EXCEPT ![u] = NoState]

\* the parameters main_menu_keyboard declares (keyboards.py:15); the repaired
\* build declares the one its callers pass
main_menu_keyboard_params(b) == IF b = "repaired" THEN {"is_admin"} ELSE {}

\* main_menu_keyboard(is_admin=...) raises TypeError for an undeclared keyword
main_menu_keyboard_raises(b) == ~({"is_admin"} \subseteq main_menu_keyboard_params(b))

\* the channel a reply in chat c goes through
ChatChannel(c) == IF c = "private" THEN "dm" ELSE "group"

\* the record of a handled update of the conversation
Talked(ev, by, res, out, down) == Handled(ev, by, NoId, res, out, down)

\* start_command: /start from u in chat c, no conversation under way there
start_command(u, c, down) ==
    LET ch == ChatChannel(c)
        data == [EmptyData EXCEPT !.user_id = u, !.username = Username(u)]
    IN  /\ UNCHANGED <<build, orders, admins, waitlist, prompts>>
        /\ user_data' = [user_data EXCEPT ![u] = data]
        /\ IF main_menu_keyboard_raises(build)
           THEN /\ UNCHANGED <<user_states, conv>>
                /\ last' = Crashed("start", u, NoId, {}, ch, down)
           ELSE IF ch \in down
           THEN /\ UNCHANGED <<user_states, conv>>
                /\ last' = Crashed("start", u, NoId, {Msg(ch, "greeting")}, ch, down)
           ELSE /\ user_states' = set_user_state(user_states, u, "CHOOSING_TYPE", data)
                /\ conv' = [conv EXCEPT ![<<c, u>>] = "CHOOSING_TYPE"]
                /\ last' = Talked("start", u, "ok", {Msg(ch, "greeting")}, down)

\* cancel_command: /cancel from u in chat c (the conversation's fallback, or
\* the application's handler when there is no conversation)
cancel_command(u, c, down) ==
    LET ch == ChatChannel(c)
    IN  /\ UNCHANGED <<build, orders, admins, waitlist, prompts>>
        /\ user_states' = clear_user_state(user_states, u)
        /\ user_data' = [user_data EXCEPT ![u] = EmptyData]
        /\ IF ch \in down
           THEN /\ conv' = conv
                /\ last' = Crashed("cancel", u, NoId, {Msg(ch, "order_cancelled")}, ch, down)
           ELSE /\ conv' = [conv EXCEPT ![<<c, u>>] = NULL]
                /\ last' = Talked("cancel", u, "ok", {Msg(ch, "order_cancelled")}, down)

\* handle_order_type_selection: callback order_type:<order_type> in CHOOSING_TYPE
handle_order_type_selection(u, c, order_type, down) ==
    LET ch == ChatChannel(c)
        label == ORDER_TYPES(order_type)
        data == [user_data[u] EXCEPT !.order_type = order_type,
                                     !.order_type_label = label]
    IN  /\ UNCHANGED <<build, orders, admins, waitlist, prompts>>
        /\ IF label = NULL
           THEN /\ UNCHANGED <<user_data, user_states, conv>>
                /\ last' = IF main_menu_keyboard_raises(build) \/ "edit" \in down
                           THEN Crashed("type", u, NoId, {}, ch, down)
                           ELSE Talked("type", u, "unknown_type",
                                       {Msg("edit", "unknown_type")}, down)
           ELSE /\ user_data' = [user_data EXCEPT ![u] = data]
                /\ IF "edit" \in down
                   THEN /\ UNCHANGED <<user_states, conv>>
                        /\ last' = Crashed("type", u, NoId, {Msg("edit", "prompt_subject")},
                                           ch, down)
                   ELSE /\ user_states' = set_user_state(user_states, u,
                                                         "ENTERING_SUBJECT", data)
                        /\ conv' = [conv EXCEPT ![<<c, u>>] = "ENTERING_SUBJECT"]
                        /\ last' = Talked("type", u, "ok",
                                          {Msg("edit", "prompt_subject")}, down)

\* what a handler of a text message leaves: the user's user_data, the state it
\* returns, whether _persist_state was reached, what it sent, and the user it
\* wrote to the table admins (NoId: none)
Step(ev, data, next, persist, res, out) ==
    [ev |-> ev, data |-> data, next |-> next, persist |-> persist,
     res |-> res, out |-> out, added |-> NoId]

\* await message.reply_text(prompt); await _persist_state(...); return next
\* (reply_text raises when the chat cannot be written to)
Prompted(ev, data, state, next, ch, what, down) ==
    IF ch \in down
    THEN Step(ev, data, state, FALSE, "error",
              {Msg(ch, what), Msg(ch, "generic_error")})
    ELSE Step(ev, data, next, TRUE, "ok", {Msg(ch, what)})

\* handle_subject
handle_subject(data, text, ch, down) ==
    Prompted("subject", [data EXCEPT !.subject = strip(text)],
             "ENTERING_SUBJECT", "ENTERING_DESCRIPTION", ch, "prompt_description", down)

\* handle_description for a text message
handle_description(data, text, ch, down) ==
    Prompted("description",
             [data EXCEPT !.description = strip(text), !.file_id = NULL,
                          !.file_type = NULL],
             "ENTERING_DESCRIPTION", "ENTERING_ADDITIONAL", ch, "prompt_additional", down)

\* handle_description for a message with a file (_extract_file_info)
handle_description_file(data, file, ch, down) ==
    Prompted("description",
             [data EXCEPT !.description = <<"file_attached">>,
                          !.file_id = file.file_id, !.file_type = file.file_type],
             "ENTERING_DESCRIPTION", "ENTERING_ADDITIONAL", ch, "prompt_additional", down)

\* handle_additional
handle_additional(data, text, ch, down) ==
    Prompted("additional", [data EXCEPT !.additional_info = strip(text)],
             "ENTERING_ADDITIONAL", "ENTERING_DEADLINE", ch, "prompt_deadline", down)

\* handle_deadline
handle_deadline(data, text, ch, down) ==
    Prompted("deadline", [data EXCEPT !.deadline = strip(text)],
             "ENTERING_DEADLINE", "ENTERING_BUDGET", ch, "prompt_budget", down)

IsDigit(c) == c \in {"0", "1", "2", "3", "4", "5", "6", "7", "8", "9"}
AllDigits(s) == s # <<>> /\ \A i \in 1..Len(s) : IsDigit(s[i])

\* BUDGET_PATTERN.match(s) for ^\d+([.,]\d+)?$
BUDGET_PATTERN(s) ==
    \/ AllDigits(s)
    \/ \E k \in 1..Len(s) :
          /\ s[k] \in {".", ","}
          /\ AllDigits(SubSeq(s, 1, k - 1))
          /\ AllDigits(SubSeq(s, k + 1, Len(s)))

\* str.replace(",", ".")
replace_comma(s) == [i \in 1..Len(s) |-> IF s[i] = "," THEN "." ELSE s[i]]

\* handle_budget: the summary reads order_type_label, subject and description
\* with [] (KeyError when the key is absent)
handle_budget(data, text, ch, down) ==
    LET budget_raw == replace_comma(strip(text))
        d == [data EXCEPT !.budget = budget_raw]
    IN  IF ~BUDGET_PATTERN(budget_raw)
        THEN IF ch \in down
             THEN Step("budget", data, "ENTERING_BUDGET", FALSE, "error",
                       {Msg(ch, "invalid_budget"), Msg(ch, "generic_error")})
             ELSE Step("budget", data, "ENTERING_BUDGET", FALSE, "invalid_budget",
                       {Msg(ch, "invalid_budget")})
        ELSE IF d.order_type_label = NULL \/ d.subject = NoText \/ d.description = NoText
        THEN Step("budget", d, "ENTERING_BUDGET", FALSE, "error",
                  {Msg(ch, "generic_error")})
        ELSE Prompted("budget", d, "ENTERING_BUDGET", "CONFIRMING", ch, "summary", down)

\* int(text) for a text of decimal digits
DigitValue(c) ==
    CASE c = "0" -> 0 [] c = "1" -> 1 [] c = "2" -> 2 [] c = "3" -> 3 [] c = "4" -> 4
      [] c = "5" -> 5 [] c = "6" -> 6 [] c = "7" -> 7 [] c = "8" -> 8 [] c = "9" -> 9
RECURSIVE int(_)
int(s) ==
    IF s = <<>> THEN 0
    ELSE 10 * int(SubSeq(s, 1, Len(s) - 1)) + DigitValue(s[Len(s)])

\* handle_admin_text_input: a private text message outside the text steps of
\* a conversation.  With no admin action pending (ADMIN_ACTION_KEY absent
\* from user_data) the handler returns at once; a text that is not a number
\* is answered and the key is left in place; the key is popped after the id
\* is added or the broadcast is sent (the deliveries of a broadcast fail one
\* by one without effect and are left out of what was sent).
handle_admin_text_input(u, data, state, text, ch, down) ==
    LET action == data.admin_action
        popped == [data EXCEPT !.admin_action = NULL]
        said(what) == {Msg(ch, what)}
                      \cup (IF ch \in down THEN {Msg(ch, "generic_error")} ELSE {})
    IN  IF action = NULL
        THEN Step("text", data, state, FALSE, "ignored", {})
        ELSE IF ~is_admin(admins, u)
        THEN Step("admin_text", popped, state, FALSE, "admin_only", {})
        ELSE IF action = "add_admin"
        THEN IF ~AllDigits(strip(text))
             THEN Step("admin_text", data, state, FALSE,
                       IF ch \in down THEN "error" ELSE "not_numeric",
                       said("id_not_numeric"))
             ELSE [Step("admin_text", IF ch \in down THEN data ELSE popped, state, FALSE,
                        IF ch \in down THEN "error" ELSE "admin_added",
                        said("admin_added"))
                   EXCEPT !.added = int(strip(text))]
        ELSE Step("admin_text", IF ch \in down THEN data ELSE popped, state, FALSE,
                  IF ch \in down THEN "error" ELSE "broadcast_done",
                  said("broadcast_done"))

\* the handler of group 0 for a text message of u: the handler of the
\* conversation state, else handle_admin_text_input
TextHandler(u, state, data, text, ch, down) ==
    CASE state = "ENTERING_SUBJECT" -> handle_subject(data, text, ch, down)
      [] state = "ENTERING_DESCRIPTION" -> handle_description(data, text, ch, down)
      [] state = "ENTERING_ADDITIONAL" -> handle_additional(data, text, ch, down)
      [] state = "ENTERING_DEADLINE" -> handle_deadline(data, text, ch, down)
      [] state = "ENTERING_BUDGET" -> handle_budget(data, text, ch, down)
      [] OTHER -> handle_admin_text_input(u, data, state, text, ch, down)

\* context.user_data.clear() of handle_fallback_message
fallback_user_data_kept(data) == data
fallback_user_data(data) == EmptyData

\* The state after the handlers of one message of u in chat c: r is what the
\* handler of group 0 left; with fallback, handle_fallback_message (group 1)
\* runs after it: clear_user_state, user_data.clear(), reply_text.  text is
\* the text of the message (NoText for a message without text).
AfterHandlers(u, c, r, text, fallback, down) ==
    LET saved == IF r.persist THEN set_user_state(user_states, u, r.next, r.data)
                 ELSE user_states
        told == {Msg("dm", "use_start")}
                \cup (IF "dm" \in down THEN {Msg("dm", "generic_error")} ELSE {})
    IN  /\ UNCHANGED <<build, orders, waitlist, prompts>>
        /\ admins' = IF r.added = NoId THEN admins ELSE add_admin(admins, r.added)
        /\ conv' = [conv EXCEPT ![<<c, u>>] = r.next]
        /\ user_data' = [user_data EXCEPT ![u] = IF fallback THEN fallback_user_data(r.data)
                                                 ELSE r.data]
        /\ user_states' = IF fallback THEN clear_user_state(saved, u) ELSE saved
        /\ last' = [Talked(r.ev, u, r.res, IF fallback THEN r.out \cup told ELSE r.out,
                           down)
                    EXCEPT !.fallback = fallback, !.text = text]

\* handle_confirmation: callback order_confirm:<decision> in CONFIRMING
handle_confirmation(u, c, decision, down) ==
    LET ch == ChatChannel(c)
        data == user_data[u]
        t1 == create_order(orders, data)
        order_id == Len(t1)
        t2 == store_group_message(t1, order_id, 100 + order_id)
        card == {Msg("group", "order_card")}
                \cup (IF data.file_id # NULL THEN {Msg("group", "attachment")} ELSE {})
        Decided(rec) == WithArg(rec, decision)
        cleared == /\ user_states' = clear_user_state(user_states, u)
                   /\ user_data' = [user_data EXCEPT ![u] = EmptyData]
                   /\ conv' = [conv EXCEPT ![<<c, u>>] = NULL]
    IN  /\ UNCHANGED <<build, admins, waitlist, prompts>>
        /\ IF decision = "no"
           THEN /\ orders' = orders
                /\ IF "edit" \in down
                   THEN /\ UNCHANGED <<user_states, user_data, conv>>
                        /\ last' = Decided(Crashed("confirm", u, NoId,
                                           {Msg("edit", "order_discarded")}, ch, down))
                   ELSE /\ cleared
                        /\ last' = Decided(Talked("confirm", u, "discarded",
                                          {Msg("edit", "order_discarded")}, down))
           ELSE IF create_order_missing_key(data)
           THEN /\ UNCHANGED <<orders, user_states, user_data, conv>>
                /\ last' = Decided(Crashed("confirm", u, NoId, {}, ch, down))
           ELSE /\ Len(orders) < MaxOrders
                /\ IF data.order_type_label = NULL
                   THEN \* _build_order_record_from_user_data raises KeyError
                        /\ orders' = t1
                        /\ UNCHANGED <<user_states, user_data, conv>>
                        /\ last' = Decided(Crashed("confirm", u, order_id, {}, ch, down))
                   ELSE IF "group" \in down
                   THEN \* _send_order_to_group raises: the row stays unannounced
                        /\ orders' = t1
                        /\ UNCHANGED <<user_states, user_data, conv>>
                        /\ last' = Decided(Crashed("confirm", u, order_id,
                                           {Msg("group", "order_card")}, ch, down))
                   ELSE /\ orders' = t2
                        /\ IF "edit" \in down
                           THEN /\ UNCHANGED <<user_states, user_data, conv>>
                                /\ last' = Decided(Crashed("confirm", u, order_id,
                                                   card \cup {Msg("edit", "order_submitted")},
                                                   ch, down))
                           ELSE /\ cleared
                                /\ last' = Decided(Handled("confirm", u, order_id, "ok",
                                                   card \cup {Msg("edit", "order_submitted")},
                                                   down))

----------------------------------------------------------------------------
(* register_handlers / build_conversation_handler: which handler an update *)
(* reaches.  An update no handler matches changes nothing.                 *)

\* no handler of group 0 matches the update
Unhandled(ev, u, down) ==
    /\ UNCHANGED <<build, orders, user_states, admins, conv, user_data, waitlist, prompts>>
    /\ last' = Talked(ev, u, "unhandled", {}, down)

\* /start: an entry point, taken only when no conversation is under way
OnStart(u, c, down) ==
    IF conv[<<c, u>>] = NULL THEN start_command(u, c, down)
    ELSE Unhandled("start", u, down)

\* /cancel
OnCancel(u, c, down) == cancel_command(u, c, down)

\* callback order_type:<order_type>
OnOrderType(u, c, order_type, down) ==
    IF conv[<<c, u>>] = "CHOOSING_TYPE"
    THEN handle_order_type_selection(u, c, order_type, down)
    ELSE Unhandled("type", u, down)

\* callback order_confirm:<decision>
OnConfirm(u, c, decision, down) ==
    IF conv[<<c, u>>] = "CONFIRMING" THEN handle_confirmation(u, c, decision, down)
    ELSE Unhandled("confirm", u, down)

\* a text message that is not a command, in chat c, as a reply to message
\* reply_id (NoId: not a reply)
OnText(u, c, text, reply_id, down) ==
    LET state == conv[<<c, u>>]
    IN  IF state \in TextStates \/ c = "private"
        THEN AfterHandlers(u, c,
                           TextHandler(u, state, user_data[u], text, ChatChannel(c), down),
                           text, c = "private", down)
        ELSE IF reply_id # NoId
        THEN handle_decline_reason_message(u, reply_id, text, down)
        ELSE Unhandled("text", u, down)

\* a message with a file in chat c
OnFile(u, c, file, now, down) ==
    IF conv[<<c, u>>] = "ENTERING_DESCRIPTION"
    THEN AfterHandlers(u, c,
                       handle_description_file(user_data[u], file, ChatChannel(c), down),
                       NoText, FALSE, down)
    ELSE IF c = "private"
    THEN handle_payment_receipt_submission(u, file, now, down)
    ELSE Unhandled("file", u, down)

----------------------------------------------------------------------------
(* Inputs of the updates.                                                  *)

\* who the group chat's buttons are pressed by: two executors; the student
\* writes to the bot; the admin reviews payments and completes orders
Executors == {2, 3}
Reviewers == {BootstrapAdmin, 2}
Owners == {Student, 2}

\* at most one channel fails during one update: one of those the handlers of
\* the update send through
Downs(channels) == {{}} \cup {{ch} : ch \in channels}

\* the texts of the messages: what a student answers in a step of the intake
\* (valid and invalid budgets), and what is written elsewhere (a reason
\* with a leading space, a blank message)
TextsIn(state) ==
    IF state = "ENTERING_BUDGET" THEN {<<"7">>, <<"1", ",", "5">>, <<"a">>, <<"1", ".">>}
    ELSE IF state \in TextStates THEN {<<"a">>}
    ELSE {<<"n", "o">>, <<" ", "n", "o">>, <<" ">>}

\* CURRENT_TIMESTAMP at a write: not before the timestamps already stored
Now ==
    {t \in Times : \A o \in DOMAIN orders :
        /\ t >= orders[o].payment_submitted_at
        /\ t >= orders[o].payment_reviewed_at
        /\ t >= orders[o].completed_at}

Files == {[file_id |-> "file1", file_type |-> "document"]}

OrderTypes == {"homework"}
\* the payloads order_confirm:<decision>: the two of confirmation_keyboard, and
\* one that is neither
Decisions == {"yes", "no", "maybe"}
Reviews == {"approve", "reject"}

\* who opens the admin menu: the bootstrap admin and a user it may appoint;
\* what they write: an id, and a text that is not a number
Managers == {BootstrapAdmin, 2}
AdminTexts == {<<"2">>, <<"a">>}

----------------------------------------------------------------------------
(* The store a process starts on.  orders.db outlives the process and the  *)
(* code (CREATE TABLE IF NOT EXISTS and _ensure_column, database.py:60-151)*)
(* so a started process may find rows: those the statements of database.py *)
(* leave, one per stage of the lifecycle.                                  *)

SeedData ==
    [EmptyData EXCEPT !.user_id = Student, !.username = Username(Student),
                      !.order_type = "homework",
                      !.order_type_label = ORDER_TYPES("homework"),
                      !.subject = <<"a">>, !.description = <<"a">>,
                      !.additional_info = <<"a">>, !.deadline = <<"a">>,
                      !.budget = <<"7">>]

SeedPending == store_group_message(create_order(<<>>, SeedData), 1, 101)
SeedDeclining ==
    update_order_status(SeedPending, 1, "awaiting_decline_reason", 2, Username(2), NoText)
SeedDeclined ==
    update_order_status(SeedDeclining, 1, "declined", NoId, NULL, <<"n", "o">>)
SeedAwaitingPayment ==
    update_payment_status(
        update_order_status(SeedPending, 1, "awaiting_payment", 2, Username(2), NoText),
        1, "requested", NoId, NULL, 0)
SeedPaymentReview ==
    update_payment_status(
        update_order_status(
            save_payment_receipt(SeedAwaitingPayment, 1, "file1", "document", Student, 1),
            1, "payment_review", NoId, NULL, NoText),
        1, "submitted", NoId, NULL, 1)
SeedInProgress ==
    update_order_status(
        update_payment_status(SeedPaymentReview, 1, "confirmed", BootstrapAdmin, NULL, 1),
        1, "in_progress", NoId, NULL, NoText)
SeedCompleted == mark_order_completed(SeedInProgress, 1, 1)

SeedRows == {SeedPending[1], SeedDeclining[1], SeedDeclined[1], SeedAwaitingPayment[1],
             SeedPaymentReview[1], SeedInProgress[1], SeedCompleted[1]}

\* the store holds no order, or one
SeededStores == {<<>>} \cup {<<row>> : row \in SeedRows}

\* what is in memory when a process starts (handlers.py:168, persistent=False)
\* and the tables initialize() creates
Started ==
    /\ user_states = [u \in Users |-> NoState]
    /\ admins = {BootstrapAdmin}
    /\ conv = [k \in Chats \X Users |-> NULL]
    /\ user_data = [u \in Users |-> EmptyData]
    /\ waitlist = <<>>
    /\ prompts = 0
    /\ last = [ev |-> "none", by |-> NoId, order |-> NoId, pre |-> "absent",
               res |-> "none", out |-> {}, failed |-> {}, fallback |-> FALSE,
               arg |-> NULL, reply |-> NoId, text |-> NoText]

Init ==
    /\ build = "shipped"
    /\ orders \in SeededStores
    /\ Started

InitRepaired ==
    /\ build = "repaired"
    /\ orders \in SeededStores
    /\ Started

InitIntake ==
    /\ build = "repaired"
    /\ orders = SeedCompleted
    /\ Started

----------------------------------------------------------------------------
(* One step: the application takes the next update.                        *)

Start == \E c \in Chats : \E down \in Downs({ChatChannel(c)}) : OnStart(Student, c, down)
Cancel == \E c \in Chats : \E down \in Downs({ChatChannel(c)}) : OnCancel(Student, c, down)
OrderType ==
    \E c \in Chats, t \in OrderTypes, down \in Downs({"edit"}) :
        OnOrderType(Student, c, t, down)
Confirm ==
    \E c \in Chats, d \in Decisions, down \in Downs({"edit", "group"}) :
        OnConfirm(Student, c, d, down)
StudentText ==
    \E c \in Chats :
        \E text \in TextsIn(conv[<<c, Student>>]), down \in Downs({ChatChannel(c)}) :
            OnText(Student, c, text, NoId, down)
\* the messages of the bot in the group: the prompts sent so far and the
\* order cards
GroupMessages ==
    (1..prompts) \cup {orders[o].group_message_id : o \in DOMAIN orders}

\* a reply in the group to one of the bot's messages (the handler reads the
\* text and sends something only when the message is a prompt it waits on)
GroupReply ==
    \E u \in Executors, reply_id \in GroupMessages :
        \E text \in IF reply_id \in DOMAIN waitlist THEN TextsIn(NULL) \cup {NoText}
                     ELSE {NoText},
           down \in IF reply_id \in DOMAIN waitlist THEN Downs(Channels) ELSE {{}} :
            OnText(u, "group", text, reply_id, down)
File ==
    \E u \in Owners, c \in Chats, file \in Files, now \in Now :
        \E down \in Downs({ChatChannel(c), "group"}) : OnFile(u, c, file, now, down)
Accept ==
    \E u \in Executors, o \in DOMAIN orders, down \in Downs(Channels) :
        handle_order_accept(u, o, down)
Decline ==
    \E u \in Executors, o \in DOMAIN orders, down \in Downs({"edit", "group"}) :
        prompts < MaxPrompts /\ handle_order_decline(u, o, down)
Upload ==
    \E u \in Owners, o \in DOMAIN orders, down \in Downs({"dm"}) :
        handle_payment_upload_request(u, o, down)
Review ==
    \E u \in Reviewers, o \in DOMAIN orders, d \in Reviews, now \in Now :
        \E down \in Downs(Channels) : handle_payment_review_callback(u, o, d, now, down)
Complete ==
    \E u \in Reviewers, o \in DOMAIN orders, now \in Now, down \in Downs(Channels) :
        handle_admin_complete(u, o, now, down)

\* the admin menu: the buttons "broadcast", "add an admin" and "remove <id>",
\* and what an admin then writes to the bot
AdminMenu ==
    \E u \in Managers, down \in Downs({"dm"}) : handle_admin_menu_callback(u, down)
AdminManage ==
    \E u \in Managers, target \in Managers \cup {NoId}, down \in Downs({"dm"}) :
        handle_admin_manage_callback(u, target, down)
AdminText ==
    \E u \in Managers, text \in AdminTexts, down \in Downs({"dm"}) :
        OnText(u, "private", text, NoId, down)

\* the process is stopped and started again (run_bot): what is in memory is
\* lost (the conversations, persistent=False; context.user_data;
\* DECLINE_REASON_WAITLIST), the tables and the messages in the chats stay,
\* and db.initialize() runs again
Restart ==
    /\ conv' = [k \in Chats \X Users |-> NULL]
    /\ user_data' = [u \in Users |-> EmptyData]
    /\ waitlist' = <<>>
    /\ admins' = initialize(admins)
    /\ last' = WithArg(Handled("restart", NoId, NoId, "ok", {}, {}),
                       IF BootstrapAdmin \in admins THEN "ignored" ELSE "inserted")
    /\ UNCHANGED <<build, orders, user_states, prompts>>

Next ==
    \/ Start \/ Cancel \/ OrderType \/ Confirm \/ StudentText \/ GroupReply \/ File
    \/ Accept \/ Decline \/ Upload \/ Review \/ Complete
    \/ AdminMenu \/ AdminManage \/ AdminText \/ Restart

\* the updates of the intake conversation, and restarts
NextIntake ==
    \/ Start \/ Cancel \/ OrderType \/ Confirm \/ StudentText \/ File \/ Restart

\* the updates of the order lifecycle: no intake conversation is under way
NextLifecycle ==
    \/ StudentText \/ GroupReply \/ File
    \/ Accept \/ Decline \/ Upload \/ Review \/ Complete

Spec == Init /\ [][Next]_vars

SpecRepaired == InitRepaired /\ [][NextLifecycle]_vars

SpecIntake == InitIntake /\ [][NextIntake]_vars

\* the parties of the payment loop doing their part, every request to
\* Telegram succeeding: the requester of an order presses its upload button,
\* sends the file, and an admin approves the payment
RequesterUploads ==
    \E o \in DOMAIN orders : handle_payment_upload_request(orders[o].user_id, o, {})
RequesterSendsFile ==
    \E o \in DOMAIN orders, file \in Files, now \in Now :
        OnFile(orders[o].user_id, "private", file, now, {})
AdminApproves ==
    \E u \in Reviewers \cap admins, o \in DOMAIN orders, now \in Now :
        handle_payment_review_callback(u, o, "approve", now, {})

\* the code as it is in src/ with the parties of the payment loop doing their
\* part again and again
SpecFair ==
    /\ Init /\ [][Next]_vars
    /\ SF_vars(RequesterUploads) /\ SF_vars(RequesterSendsFile) /\ SF_vars(AdminApproves)

----------------------------------------------------------------------------
(* Properties.  last describes the update just handled: in a state it is   *)
(* the update that led to the state, in a step last' is the update of the  *)
(* step.                                                                   *)

PaymentDue == {"awaiting_payment", "payment_review"}
Claimable == {"pending", "awaiting_decline_reason"}

\* C1: of two claims on one pending order, handled one after the other, the
\* first moves the order to awaiting_payment with its claimer as executor
\* and the second, finding the order awaiting payment, is told "already
\* processed" and leaves the executor alone.
C1_OneClaimWins ==
    last.ev = "accept" =>
        /\ last.pre = "pending" =>
              /\ orders[last.order].status = "awaiting_payment"
              /\ orders[last.order].executor_id = last.by
        /\ last.pre = "awaiting_payment" =>
              /\ last.res = "already_processed"
              /\ orders[last.order].status = "awaiting_payment"

\* C2: a claim on an order that is neither pending nor awaiting a decline
\* reason changes nothing of the order, sends no payment request and tells
\* the claimer that the order is already processed.
C2_NonClaimableRejected ==
    [][(last'.ev = "accept" /\ orders[last'.order].status \notin Claimable)
         => /\ orders' = orders
            /\ last'.res = "already_processed"
            /\ Msg("alert", "already_processed") \in last'.out
            /\ Msg("dm", "payment_request") \notin last'.out]_vars

\* C3: a claim by E on a pending order leaves the order awaiting_payment with
\* executor E and payment_status requested, and the payment request is sent
\* to the requester.
C3_ClaimEffects ==
    (last.ev = "accept" /\ last.pre = "pending")
        => /\ orders[last.order].status = "awaiting_payment"
           /\ orders[last.order].executor_id = last.by
           /\ orders[last.order].payment_status = "requested"
           /\ Msg("dm", "payment_request") \in last.out

\* C4: a decline by E of a pending order sets awaiting_decline_reason, records
\* E as executor and opens a correlation {order, E} under the new prompt; a
\* decline of an order in any other status changes neither the order nor the
\* correlations.
C4_DeclineOnlyFromPending ==
    [][last'.ev = "decline"
         => IF orders[last'.order].status = "pending"
            THEN /\ orders'[last'.order].status = "awaiting_decline_reason"
                 /\ orders'[last'.order].executor_id = last'.by
                 /\ \E m \in DOMAIN waitlist' \ DOMAIN waitlist :
                        waitlist'[m] = [order_id |-> last'.order,
                                        executor_id |-> last'.by]
            ELSE orders' = orders /\ waitlist' = waitlist]_vars

\* C5: a reply to a live decline-reason prompt from somebody other than the
\* correlation's executor is answered with the "reason required" notice and
\* changes neither the order (it stays awaiting_decline_reason without a
\* reason) nor the correlation.
C5_OtherIdentityRejected ==
    [][\A m \in DOMAIN waitlist :
          (last'.ev = "reason" /\ last'.reply = m /\ last'.by # waitlist[m].executor_id)
            => /\ Msg("group", "reason_required") \in last'.out
               /\ orders' = orders
               /\ waitlist' = waitlist
               /\ orders[waitlist[m].order_id].status = "awaiting_decline_reason"
                    => orders'[waitlist[m].order_id].decline_reason = NoText]_vars

C5_Witness ==
    /\ last.ev = "reason"
    /\ last.res = "reason_required"
    /\ last.reply \in DOMAIN waitlist
    /\ last.by # waitlist[last.reply].executor_id
    /\ last.text \notin {NoText, <<" ">>}
    /\ orders[last.order].status = "awaiting_decline_reason"

\* r is t without the white space at its ends
Trimmed(t, r) ==
    \E a, b \in 0..Len(t) :
        /\ a + b <= Len(t)
        /\ r = SubSeq(t, a + 1, Len(t) - b)
        /\ \A i \in 1..a : IsSpace(t[i])
        /\ \A i \in (Len(t) - b + 1)..Len(t) : IsSpace(t[i])
        /\ r # <<>> => ~IsSpace(r[1]) /\ ~IsSpace(r[Len(r)])

\* the reply of the step is the decliner's reply, with a text, to live prompt
\* m of an order that awaits its decline reason
DeclinerReplies(m) ==
    /\ last'.ev = "reason"
    /\ last'.reply = m
    /\ last'.by = waitlist[m].executor_id
    /\ last'.text # NoText
    /\ orders[waitlist[m].order_id].status = "awaiting_decline_reason"

\* C6, as stated: a reply with a non-empty text from the decliner to the live
\* prompt of an order in awaiting_decline_reason makes the order declined with
\* decline_reason equal to the text of the reply.
C6_ReasonVerbatim ==
    [][\A m \in DOMAIN waitlist :
          (DeclinerReplies(m) /\ last'.text # <<>>)
            => /\ orders'[waitlist[m].order_id].status = "declined"
               /\ orders'[waitlist[m].order_id].decline_reason = last'.text]_vars

\* C6, amended: a reply from the decliner to the live prompt of an order in
\* awaiting_decline_reason whose text is not blank makes the order declined
\* with decline_reason equal to the text without the white space at its ends.
C6_ReasonTrimmed ==
    [][\A m \in DOMAIN waitlist :
          (DeclinerReplies(m) /\ ~Trimmed(last'.text, <<>>))
            => /\ orders'[waitlist[m].order_id].status = "declined"
               /\ Trimmed(last'.text, orders'[waitlist[m].order_id].decline_reason)]_vars

C6_Witness ==
    /\ last.ev = "reason"
    /\ last.res = "ok"
    /\ last.pre = "awaiting_decline_reason"
    /\ last.text = <<" ", "n", "o">>
    /\ orders[last.order].status = "declined"
    /\ orders[last.order].decline_reason = <<"n", "o">>

\* C7: a reply to a decline-reason prompt whose order is no longer in
\* awaiting_decline_reason changes nothing of the order.
C7_StalePromptNotHonored ==
    [][(/\ last'.ev = "reason"
        /\ last'.reply \in DOMAIN waitlist
        /\ orders[waitlist[last'.reply].order_id].status # "awaiting_decline_reason")
         => orders' = orders]_vars

\* C8: the correlations hold at most one entry per order id.
C8_OneCorrelationPerOrder ==
    \A m1, m2 \in DOMAIN waitlist :
        waitlist[m1].order_id = waitlist[m2].order_id => m1 = m2

C8_Witness ==
    /\ last.ev = "decline"
    /\ last.res = "already_processed"
    /\ \E m \in DOMAIN waitlist : waitlist[m].order_id = last.order

\* C9: on a claimed order, evidence (the upload button, then the file) moves
\* awaiting_payment / requested to payment_review / submitted, a rejection
\* moves that to awaiting_payment / rejected, evidence again to payment_review
\* / submitted, and an approval to in_progress / confirmed.
C9_PaymentLoop ==
    /\ (/\ last.ev = "upload"
        /\ last.pre \in PaymentDue
        /\ orders[last.order].user_id = last.by)
         => user_data[last.by].payment_upload_order = last.order
    /\ (last.ev = "receipt" /\ last.pre \in PaymentDue)
         => /\ orders[last.order].status = "payment_review"
            /\ orders[last.order].payment_status = "submitted"
    /\ (last.ev = "review" /\ last.by \in admins /\ last.pre = "payment_review")
         => IF last.arg = "approve"
            THEN /\ orders[last.order].status = "in_progress"
                 /\ orders[last.order].payment_status = "confirmed"
            ELSE /\ orders[last.order].status = "awaiting_payment"
                 /\ orders[last.order].payment_status = "rejected"

\* C10: evidence arriving for an order that is not awaiting payment or under
\* payment review changes neither the order's status nor its payment_status.
C10_EvidenceOnlyWhenPaymentDue ==
    [][(/\ last'.ev = "receipt"
        /\ last'.order \in DOMAIN orders
        /\ orders[last'.order].status \notin PaymentDue)
         => /\ orders'[last'.order].status = orders[last'.order].status
            /\ orders'[last'.order].payment_status
                 = orders[last'.order].payment_status]_vars

\* C11: a payment review decision by an admin on an order whose status is not
\* payment_review leaves the order's status and payment_status as they were.
C11_ReviewOnlyInPaymentReview ==
    [][(/\ last'.ev = "review"
        /\ last'.by \in admins
        /\ orders[last'.order].status # "payment_review")
         => /\ orders'[last'.order].status = orders[last'.order].status
            /\ orders'[last'.order].payment_status
                 = orders[last'.order].payment_status]_vars

\* C12: an admin completion of an order that is not in_progress neither makes
\* the order completed nor sets its completed_at.
C12_CompleteOnlyInProgress ==
    [][(/\ last'.ev = "complete"
        /\ orders[last'.order].status
             \in {"pending", "awaiting_decline_reason", "declined",
                  "awaiting_payment", "payment_review"})
         => /\ orders'[last'.order].status # "completed"
            /\ orders'[last'.order].completed_at = orders[last'.order].completed_at]_vars

\* C13: an admin completion of an order that is already completed is answered
\* "already processed", notifies neither the requester nor the group, and
\* leaves completed_at as the first completion set it.
C13_CompleteIdempotent ==
    [][(/\ last'.ev = "complete"
        /\ last'.by \in admins
        /\ orders[last'.order].status = "completed")
         => /\ last'.res = "already_processed"
            /\ Msg("dm", "order_completed") \notin last'.out
            /\ Msg("group", "order_completed") \notin last'.out
            /\ orders'[last'.order].completed_at = orders[last'.order].completed_at]_vars

\* C14: the status of an order that is declined or completed is never changed
\* by any update.
C14_TerminalStatuses ==
    [][\A o \in DOMAIN orders :
          orders[o].status \in {"declined", "completed"}
            => orders'[o].status = orders[o].status]_vars

\* C15: an order that an update has just written has an executor recorded
\* exactly when its status is neither pending nor declined.
C15_ExecutorIffClaimed ==
    \A o \in DOMAIN orders :
        (last.order = o /\ last.res = "ok")
            => ((orders[o].executor_id # NoId)
                  <=> (orders[o].status \notin {"pending", "declined"}))

\* C16: an order whose payment_status is not not_requested is awaiting_payment,
\* in payment_review, in_progress or completed.
C16_PaymentStatusOnlyWhenClaimed ==
    \A o \in DOMAIN orders :
        orders[o].payment_status # "not_requested"
            => orders[o].status \in {"awaiting_payment", "payment_review",
                                     "in_progress", "completed"}

\* the statuses the transition of an update starts from
ExpectedPrior(ev) ==
    CASE ev = "accept" -> Claimable
      [] ev = "decline" -> {"pending"}
      [] ev = "reason" -> {"awaiting_decline_reason"}
      [] ev = "receipt" -> PaymentDue
      [] ev = "review" -> {"payment_review"}
      [] ev = "complete" -> {"in_progress"}
      [] OTHER -> {}

\* C17: the status of an order changes only in an update on that order whose
\* transition starts from the status the order has when the update is handled.
C17_WritesKeyedOnPriorStatus ==
    [][\A o \in DOMAIN orders :
          orders'[o].status # orders[o].status
            => /\ last'.order = o
               /\ orders[o].status \in ExpectedPrior(last'.ev)]_vars

\* the steps of the intake in order, as events, and the state each leads to
StepRank(ev) ==
    CASE ev = "start" -> 1 [] ev = "type" -> 2 [] ev = "subject" -> 3
      [] ev = "description" -> 4 [] ev = "additional" -> 5 [] ev = "deadline" -> 6
      [] ev = "budget" -> 7 [] OTHER -> 0

StepLeadsTo(ev) ==
    CASE ev = "start" -> "CHOOSING_TYPE" [] ev = "type" -> "ENTERING_SUBJECT"
      [] ev = "subject" -> "ENTERING_DESCRIPTION"
      [] ev = "description" -> "ENTERING_ADDITIONAL"
      [] ev = "additional" -> "ENTERING_DEADLINE"
      [] ev = "deadline" -> "ENTERING_BUDGET"
      [] ev = "budget" -> "CONFIRMING"
      [] OTHER -> NULL

\* data holds the fields the steps up to ev collect, and nothing of another
\* dialogue
CollectedUpTo(data, ev) ==
    /\ StepRank(ev) >= 2 => data.order_type # NULL /\ data.order_type_label # NULL
    /\ StepRank(ev) >= 3 => data.subject # NoText
    /\ StepRank(ev) >= 4 => data.description # NoText
    /\ StepRank(ev) >= 5 => data.additional_info # NoText
    /\ StepRank(ev) >= 6 => data.deadline # NoText
    /\ StepRank(ev) >= 7 => data.budget # NoText
    /\ data.admin_action = NULL
    /\ data.payment_upload_order = NoId

\* the update of the step is a valid input of an intake step that reached its
\* handler, no request to the transport failing
ValidStepInput ==
    /\ StepRank(last'.ev) > 0
    /\ last'.res \notin {"unhandled", "invalid_budget", "unknown_type"}
    /\ last'.failed = {}

\* C18: every valid input of an intake step is handled without failure,
\* advances the conversation to the next step and leaves the fields collected
\* so far populated (all six at CONFIRMING).
C18_IntakeReachesConfirming ==
    [][ValidStepInput
         => /\ last'.res = "ok"
            /\ \E c \in Chats : /\ conv'[<<c, last'.by>>] = StepLeadsTo(last'.ev)
                                /\ conv[<<c, last'.by>>] # conv'[<<c, last'.by>>]
            /\ CollectedUpTo(user_data'[last'.by], last'.ev)]_vars

\* C19: when an intake step has been handled and has advanced, the stored
\* user_states row of the requester holds the step advanced to and the fields
\* collected so far.
C19_DraftPersistedAfterStep ==
    [][(ValidStepInput /\ last'.res = "ok")
         => /\ user_states'[last'.by].state = StepLeadsTo(last'.ev)
            /\ CollectedUpTo(user_states'[last'.by].data, last'.ev)]_vars

\* the event of the handler of a text step
StepEvent(state) ==
    CASE state = "ENTERING_SUBJECT" -> "subject"
      [] state = "ENTERING_DESCRIPTION" -> "description"
      [] state = "ENTERING_ADDITIONAL" -> "additional"
      [] state = "ENTERING_DEADLINE" -> "deadline"
      [] state = "ENTERING_BUDGET" -> "budget"
      [] OTHER -> "none"

\* C20: after a restart with the requester's stored draft at a text step S,
\* the requester's next text message is handled by the handler of S, which
\* adds to the fields stored before the restart.
C20_ResumeAfterRestart ==
    [][(/\ last.ev = "restart"
        /\ user_states[Student].state \in TextStates
        /\ last'.by = Student
        /\ last'.ev \in {"text", "subject", "description", "additional", "deadline", "budget"})
         => /\ last'.ev = StepEvent(user_states[Student].state)
            /\ CollectedUpTo(user_data'[Student], last'.ev)]_vars

\* t without the white space at its ends, each comma rewritten to a period
NormalizedBudget(t) ==
    LET m == CHOOSE m \in {SubSeq(t, a + 1, Len(t) - b) : a, b \in 0..Len(t)} :
                 Trimmed(t, m)
    IN  [i \in 1..Len(m) |-> IF m[i] = "," THEN "." ELSE m[i]]

\* r is digits, or digits, a period and digits
DecimalText(r) ==
    /\ r # <<>>
    /\ \A i \in 1..Len(r) : r[i] \in {"0", "1", "2", "3", "4", "5", "6", "7", "8", "9", "."}
    /\ Cardinality({i \in 1..Len(r) : r[i] = "."}) <= 1
    /\ r[1] # "."
    /\ r[Len(r)] # "."

\* C21: a text at the budget step whose normalized form is a decimal is stored
\* normalized as budget and advances the conversation to CONFIRMING; any other
\* text leaves the conversation at ENTERING_BUDGET and the collected fields as
\* they were.
C21_BudgetValidation ==
    [][(last'.ev = "budget" /\ last'.failed = {})
         => LET u == last'.by
                r == NormalizedBudget(last'.text)
            IN  IF DecimalText(r)
                THEN /\ user_data'[u].budget = r
                     /\ \E c \in Chats : /\ conv[<<c, u>>] = "ENTERING_BUDGET"
                                         /\ conv'[<<c, u>>] = "CONFIRMING"
                ELSE /\ conv' = conv
                     /\ user_data'[u] = user_data[u]]_vars

\* C21 where the message is handled by the budget step alone
BudgetValidationWithoutFallback ==
    [][(last'.ev = "budget" /\ last'.failed = {} /\ ~last'.fallback
        /\ CollectedUpTo(user_data[last'.by], "deadline"))
         => LET u == last'.by
                r == NormalizedBudget(last'.text)
            IN  IF DecimalText(r)
                THEN /\ user_data'[u].budget = r
                     /\ \E c \in Chats : /\ conv[<<c, u>>] = "ENTERING_BUDGET"
                                         /\ conv'[<<c, u>>] = "CONFIRMING"
                ELSE /\ conv' = conv
                     /\ user_data'[u] = user_data[u]]_vars

\* C22: a commit at CONFIRMING adds one row to orders, pending, not_requested,
\* without executor, with the requester and the fields of the draft, and
\* deletes the requester's user_states row.
C22_CommitCreatesOneOrder ==
    [][(last'.ev = "confirm" /\ last'.arg = "yes" /\ last'.res # "unhandled")
         => LET u == last'.by
                d == user_data[u]
                row == orders'[Len(orders')]
            IN  /\ Len(orders') = Len(orders) + 1
                /\ SubSeq(orders', 1, Len(orders)) = orders
                /\ row.status = "pending"
                /\ row.payment_status = "not_requested"
                /\ row.executor_id = NoId
                /\ row.user_id = u
                /\ row.order_type = d.order_type_label
                /\ row.subject = d.subject
                /\ row.description = d.description
                /\ row.additional_info = d.additional_info
                /\ row.deadline = d.deadline
                /\ row.budget = d.budget
                /\ user_states'[u] = NoState]_vars

\* C23: a confirmation event at CONFIRMING changes orders only when its
\* payload is the commit; a discard deletes the requester's user_states row
\* and leaves orders as they were.
C23_OnlyCommitCreates ==
    [][(last'.ev = "confirm" /\ last'.res # "unhandled")
         => /\ orders' # orders => last'.arg = "yes"
            /\ (last'.arg = "no" /\ last'.failed = {})
                 => /\ orders' = orders
                    /\ user_states'[last'.by] = NoState]_vars

\* C24: a private text message is taken by one handler.  The fallback
\* (handle_fallback_message) runs only for a sender who has no saved draft,
\* and never on top of a handler that took the message as the input of the
\* current step or as the text of an admin's pending action: whenever the
\* fallback runs, the sender had no row in user_states, had no admin action
\* pending, and the handler of group 0 did nothing with the message.
C24_FallbackOnlyWithoutDraft ==
    [][last'.fallback
         => /\ user_states[last'.by] = NoState
            /\ user_data[last'.by].admin_action = NULL
            /\ last'.res = "ignored"]_vars

\* the draft of u right after /start: the step is the choice of the type and
\* nothing is collected but the identity of the requester
FreshDraft(u) ==
    [state |-> "CHOOSING_TYPE",
     data |-> [EmptyData EXCEPT !.user_id = u, !.username = Username(u)]]

\* C25: after /start is handled (start_command ran and every message it sent
\* went through) the requester has a draft at the choice of the type that
\* holds no collected field, only the requester's identity.
C25_StartCreatesDraft ==
    [][(last'.ev = "start" /\ last'.res # "unhandled" /\ last'.failed = {})
         => user_states'[last'.by] = FreshDraft(last'.by)]_vars

\* C26: a /start sent while the requester's draft is at a step from the
\* subject to the confirmation supersedes the draft: afterwards the draft is
\* at the choice of the type and holds none of the fields collected before.
C26_StartSupersedesDraft ==
    [][(/\ last'.ev = "start"
        /\ last'.failed = {}
        /\ user_states[last'.by].state \in TextStates \cup {"CONFIRMING"})
         => user_states'[last'.by] = FreshDraft(last'.by)]_vars

\* C27: once one text message of an admin is taken as the text of the
\* admin's pending action (broadcast text, id of a new admin), no action is
\* pending for that admin any more, whether the action succeeded, was
\* rejected or failed.  After a text that is not a number was rejected as
\* the id of a new admin, the next text of that admin is not taken as an id:
\* it reaches no admin action and leaves the table admins alone.
C27_PendingActionCleared ==
    [][/\ last'.ev = "admin_text" => user_data'[last'.by].admin_action = NULL
       /\ (/\ last.ev = "admin_text" /\ last.res = "not_numeric"
           /\ last'.by = last.by /\ last'.text # NoText)
            => /\ last'.ev # "admin_text"
               /\ admins' = admins]_vars

\* a text that is not a number was rejected as the id of a new admin, and
\* nothing is pending for the admin afterwards
C27_Witness ==
    /\ last.ev = "admin_text"
    /\ last.res = "not_numeric"
    /\ last.by \in admins
    /\ user_data[last.by].admin_action = NULL

\* C28: after every initialization of the database (the first start and
\* every restart) the table admins holds the bootstrap admin; an
\* initialization that finds the bootstrap admin changes nothing, one that
\* does not find it adds it, and no other admin is added or removed.
C28_InitializeKeepsBootstrapAdmin ==
    /\ [](last.ev \in {"none", "restart"} => BootstrapAdmin \in admins)
    /\ [][last'.ev = "restart"
            => /\ admins' = admins \cup {BootstrapAdmin}
               /\ BootstrapAdmin \in admins => admins' = admins]_vars

\* the process restarted after the bootstrap admin was removed by an admin
\* it had appointed: it is an admin again, next to the other
C28_Witness ==
    /\ last.ev = "restart"
    /\ last.arg = "inserted"
    /\ admins = {BootstrapAdmin, 2}

\* the columns of an order that no statement of database.py updates
SameOrder(a, b) ==
    /\ a.user_id = b.user_id /\ a.username = b.username
    /\ a.order_type = b.order_type /\ a.subject = b.subject
    /\ a.description = b.description /\ a.file_id = b.file_id
    /\ a.file_type = b.file_type /\ a.additional_info = b.additional_info
    /\ a.deadline = b.deadline /\ a.budget = b.budget

\* C29: order ids are strictly increasing and never reused, and no operation
\* deletes an order: in every step each id in use stays in use for the same
\* order, and an id that comes into use is greater than every id in use
\* before.
C29_OrderIdsIncrease ==
    [][/\ \A o \in DOMAIN orders :
             o \in DOMAIN orders' /\ SameOrder(orders'[o], orders[o])
       /\ \A n \in DOMAIN orders' \ DOMAIN orders :
             \A o \in DOMAIN orders : n > o]_vars

\* an order was created in a store that held one: it has the next id and the
\* older order is in its place
C29_Witness ==
    /\ last.ev = "confirm"
    /\ last.order = 2
    /\ Len(orders) = 2
    /\ orders[1] = SeedCompleted[1]
    /\ orders[2].status = "pending"

\* the status a transition writes, and the messages it sends after the edit
\* of the order's message in the group
StatusAfter(ev, arg) ==
    CASE ev = "accept" -> "awaiting_payment"
      [] ev = "decline" -> "awaiting_decline_reason"
      [] ev = "reason" -> "declined"
      [] ev = "review" -> IF arg = "approve" THEN "in_progress" ELSE "awaiting_payment"
      [] ev = "complete" -> "completed"
SentAfterEdit(ev, arg) ==
    CASE ev = "accept" -> {Msg("dm", "order_accepted"), Msg("dm", "payment_request"),
                           Msg("group", "order_taken")}
      [] ev = "decline" -> {Msg("group", "reason_prompt")}
      [] ev = "reason" -> {Msg("dm", "order_declined")}
      [] ev = "review" -> {Msg("dm", "payment_" \o arg), Msg("group", "payment_" \o arg)}
      [] ev = "complete" -> {Msg("dm", "order_completed"), Msg("group", "order_completed"),
                             Msg("dm", "marked_completed")}

\* the update of a transition in which the edit of the order's message in the
\* group, and nothing else, failed
OnlyEditFailed(rec) ==
    /\ rec.ev \in {"accept", "decline", "reason", "review", "complete"}
    /\ rec.pre # "absent"
    /\ rec.failed # {}
    /\ \A m \in rec.failed : m.ch = "edit"

\* C30: in the transitions that edit the order's message in the group (claim,
\* decline, reason reply, payment review, completion) a failed edit is not
\* fatal: the handler runs to its end, the status it writes is stored, a
\* decline still opens its prompt, and every message that follows the edit is
\* sent.
C30_EditFailureNotFatal ==
    [][OnlyEditFailed(last')
         => /\ last'.res = "ok"
            /\ orders'[last'.order].status = StatusAfter(last'.ev, last'.arg)
            /\ SentAfterEdit(last'.ev, last'.arg) \subseteq last'.out
            /\ last'.ev = "decline"
                 => /\ prompts' = prompts + 1
                    /\ prompts' \in DOMAIN waitlist'
                    /\ waitlist'[prompts'].order_id = last'.order]_vars

\* a payment was approved while the edit of the reviewed message failed: the
\* order is in progress and the student and the group were told
C30_Witness ==
    /\ last.ev = "review"
    /\ last.arg = "approve"
    /\ last.failed = {Msg("edit", "review_decision")}
    /\ last.res = "ok"
    /\ orders[last.order].status = "in_progress"
    /\ Msg("dm", "payment_approve") \in last.out

\* C31: a failed delivery does not block the rest of a transition: when the
\* broadcast of the order to the group fails during a commit, the draft of
\* the requester is cleared all the same (the row of user_states, the fields
\* in user_data and the conversation), so that a second press of the commit
\* button finds no draft to create an order from.
C31_BroadcastFailureClearsDraft ==
    [][(/\ last'.ev = "confirm"
        /\ last'.arg = "yes"
        /\ Msg("group", "order_card") \in last'.failed)
         => /\ user_states'[last'.by] = NoState
            /\ user_data'[last'.by] = EmptyData
            /\ \A c \in Chats : conv[<<c, last'.by>>] = "CONFIRMING"
                                  => conv'[<<c, last'.by>>] # "CONFIRMING"]_vars

\* the admin-only updates: the buttons (payment review, completion, the admin
\* menu's broadcast, add-admin and remove-admin) and the text of a pending
\* admin action
AdminButtons == {"review", "complete", "admin_menu", "admin_manage"}

\* the pending admin action of every user is what it was
PendingActionsKept ==
    \A u \in Users : user_data'[u].admin_action = user_data[u].admin_action

\* C32 as stated: an admin-only action invoked by an identity that is not in
\* the table admins at that time changes neither the orders, nor the admins,
\* nor any pending action, and is answered with the denial.
C32_NonAdminDenied ==
    [][(last'.ev \in AdminButtons \cup {"admin_text"} /\ last'.by \notin admins)
         => /\ orders' = orders
            /\ admins' = admins
            /\ PendingActionsKept
            /\ Msg("alert", "admin_only") \in last'.out]_vars

\* C32 as the code has it: an admin-only action invoked by an identity that
\* is not in the table admins changes neither the orders nor the admins; a
\* button is answered with the denial and leaves every pending action as it
\* was; a text for a pending action of a user who is no longer an admin gets
\* no denial and the user's pending action is dropped.
C32_NonAdminHasNoEffect ==
    [][(last'.ev \in AdminButtons \cup {"admin_text"} /\ last'.by \notin admins)
         => /\ orders' = orders
            /\ admins' = admins
            /\ last'.ev \in AdminButtons
                 => /\ PendingActionsKept
                    /\ last'.res = "denied"
                    /\ Msg("alert", "admin_only") \in last'.out
            /\ last'.ev = "admin_text"
                 => /\ last'.res = "admin_only"
                    /\ user_data'[last'.by].admin_action = NULL
                    /\ \A u \in Users \ {last'.by} :
                          user_data'[u].admin_action = user_data[u].admin_action]_vars

\* a user with a pending action who was removed from the admins wrote the
\* text of the action
C32_Witness ==
    /\ last.ev = "admin_text"
    /\ last.res = "admin_only"
    /\ last.by \notin admins
    /\ user_data[last.by].admin_action = NULL

\* C33: the payment loop orphans no order: with the requester submitting
\* evidence whenever it is requested and an admin reviewing, every order that
\* awaits payment or is under payment review eventually is in progress.
C33_ClaimedReachesInProgress ==
    \A o \in 1..MaxOrders :
        (o \in DOMAIN orders /\ orders[o].status \in PaymentDue)
            ~> (o \in DOMAIN orders /\ orders[o].status = "in_progress")

\* C34: the correlation of a decline prompt is deleted exactly when a reply
\* to the prompt with a text that is not blank, sent by the executor the
\* correlation names, is accepted; a reply to a prompt whose correlation is
\* gone, from anyone, changes neither the orders nor the correlations.
C34_CorrelationConsumedByReply ==
    [][/\ \A m \in DOMAIN waitlist :
             m \notin DOMAIN waitlist'
                <=> /\ last'.ev = "reason"
                    /\ last'.reply = m
                    /\ last'.by = waitlist[m].executor_id
                    /\ last'.text # NoText
                    /\ strip(last'.text) # <<>>
       /\ (last'.ev = "reason" /\ last'.reply \in (1..prompts) \ DOMAIN waitlist)
             => /\ orders' = orders
                /\ waitlist' = waitlist]_vars

\* a reply arrived to a prompt whose correlation was consumed by the
\* decliner's reason: the order is declined and nothing was sent
C34_Witness ==
    /\ last.ev = "reason"
    /\ last.res = "ignored"
    /\ last.reply \in (1..prompts) \ DOMAIN waitlist
    /\ \E o \in DOMAIN orders : orders[o].status = "declined"

\* C35: the lookup of an order by id gives, for the id of a stored order, a
\* record equal to the stored row, and 'absent' for an id no order has; it
\* never fails for a stored order.  Stated over the updates that name an
\* order: the lookup the handler makes gives the row, and the lookup of the
\* next free id gives 'absent'.
C35_GetOrderReturnsRow ==
    [][last'.order \in DOMAIN orders
         => /\ get_order(build, orders, last'.order) = orders[last'.order]
            /\ get_order(build, orders, Len(orders) + 1) = Absent]_vars

\* C36: payment evidence is accepted only from the requester of the order: a
\* press of the upload button or a file by anyone else changes neither the
\* status, nor the payment_status, nor the stored evidence of the order.
C36_EvidenceOnlyFromRequester ==
    [][last'.ev \in {"upload", "receipt"}
         => \A o \in DOMAIN orders :
               orders[o].user_id # last'.by
                 => /\ orders'[o].status = orders[o].status
                    /\ orders'[o].payment_status = orders[o].payment_status
                    /\ orders'[o].payment_receipt_file_id = orders[o].payment_receipt_file_id
                    /\ orders'[o].payment_receipt_type = orders[o].payment_receipt_type
                    /\ orders'[o].payment_submitted_at = orders[o].payment_submitted_at]_vars

\* someone who is not the requester pressed the upload button of an order
\* that awaits payment and was told the order is not theirs
C36_Witness ==
    /\ last.ev = "upload"
    /\ last.res = "not_yours"
    /\ last.order \in DOMAIN orders
    /\ orders[last.order].user_id # last.by
    /\ orders[last.order].status = "awaiting_payment"

\* C37: after a successful claim the stored executor id and the stored
\* executor username are both the claimer's, also when the order was in
\* awaiting_decline_reason with another executor recorded and when the
\* claimer has no username.
C37_ExecutorIsClaimer ==
    [][(last'.ev = "accept" /\ last'.res = "ok")
         => /\ orders'[last'.order].executor_id = last'.by
            /\ orders'[last'.order].executor_username = Username(last'.by)]_vars

-----------------------------------------------------------------------------
(* The two storage writes of handle_order_accept as separate steps.  Each   *)
(* write is committed on its own (Database._execute_sync), so the row after *)
(* the first write and before the second is a state of the store.           *)

\* no handler is between two of its writes
Idle == last.res # "writing"

\* handle_order_accept up to and including update_order_status: the checks,
\* and for a claimable order the write of the status and of the executor
accept_status_write(u, o, down) ==
    LET order == get_order(build, orders, o)
    IN  IF order # Raise /\ order # Absent /\ order.status \in Claimable
        THEN /\ orders' = update_order_status(orders, o, "awaiting_payment", u,
                                              Username(u), NoText)
             /\ last' = Handled("accept", u, o, "writing", {}, {})
             /\ UNCHANGED <<build, user_states, admins, conv, user_data, waitlist, prompts>>
        ELSE handle_order_accept(u, o, down)

\* handle_order_accept from update_payment_status on: the write of the
\* payment status, then the messages
accept_payment_write(down) ==
    LET sent == {Msg("edit", "order_accepted"), Msg("dm", "order_accepted"),
                 Msg("dm", "payment_request"), Msg("group", "order_taken")}
        done == IF "group" \in down
                THEN Crashed("accept", last.by, last.order, sent, "group", down)
                ELSE Handled("accept", last.by, last.order, "ok", sent, down)
    IN  /\ last.ev = "accept"
        /\ last.res = "writing"
        /\ orders' = update_payment_status(orders, last.order, "requested", NoId, NULL, 0)
        /\ last' = [done EXCEPT !.pre = last.pre]
        /\ UNCHANGED <<build, user_states, admins, conv, user_data, waitlist, prompts>>

AcceptStatusWrite ==
    \E u \in Executors, o \in DOMAIN orders, down \in Downs(Channels) :
        Idle /\ accept_status_write(u, o, down)
AcceptPaymentWrite ==
    \E down \in Downs(Channels) : accept_payment_write(down)

\* the updates of the order lifecycle, handled one after the other, with the
\* claim of an order taking two steps
NextWrites ==
    \/ Idle /\ StudentText
    \/ Idle /\ GroupReply
    \/ Idle /\ File
    \/ Idle /\ Decline
    \/ Idle /\ Upload
    \/ Idle /\ Review
    \/ Idle /\ Complete
    \/ AcceptStatusWrite
    \/ AcceptPaymentWrite

SpecWrites == InitRepaired /\ [][NextWrites]_vars

\* C38: in every state of the store, the states between two writes of one
\* handler included, the status and the payment status of each order agree:
\* awaiting_payment goes with requested or rejected, payment_review with
\* submitted, in_progress and completed with confirmed.
C38_StatusMatchesPayment ==
    \A o \in DOMAIN orders :
        /\ orders[o].status = "awaiting_payment"
             => orders[o].payment_status \in {"requested", "rejected"}
        /\ orders[o].status = "payment_review"
             => orders[o].payment_status = "submitted"
        /\ orders[o].status \in {"in_progress", "completed"}
             => orders[o].payment_status = "confirmed"

\* the same agreement, asked only of the states in which no handler is
\* between two of its writes
StatusMatchesPaymentWhenIdle == Idle => C38_StatusMatchesPayment

\* the order o has an entry in the map of awaited replies that names the
\* executor recorded in its row
HasCorrelation(tbl, wl, o) ==
    \E m \in DOMAIN wl : /\ wl[m].order_id = o
                         /\ wl[m].executor_id = tbl[o].executor_id

\* C39: after every update, each order in awaiting_decline_reason has an
\* entry in the map of awaited replies that names the order's recorded
\* executor, so that the reason can still be given; also when the prompt for
\* the reason could not be sent.
C39_DeclineReasonStillAwaited ==
    [][\A o \in DOMAIN orders' :
          orders'[o].status = "awaiting_decline_reason"
            => HasCorrelation(orders', waitlist', o)]_vars

\* the same, asked only of the update that declines the order
DeclineLeavesCorrelation ==
    [][(last'.ev = "decline" /\ last'.order \in DOMAIN orders'
          /\ orders[last'.order].status = "pending"
          /\ orders'[last'.order].status = "awaiting_decline_reason")
         => HasCorrelation(orders', waitlist', last'.order)]_vars

\* C40: the set of admins is never empty, and the removal an admin asks for
\* never removes that admin: whatever removals the current admins ask for,
\* one after the other, at least one admin remains.
C40_AdminsNeverEmpty ==
    /\ [](admins # {})
    /\ [][(last'.ev = "admin_manage" /\ last'.by \in admins)
            => last'.by \in admins']_vars

\* the only admin left, who is not the bootstrap admin, asked to be removed
\* and was refused
C40_Witness ==
    /\ last.ev = "admin_manage"
    /\ last.res = "refused"
    /\ last.arg = last.by
    /\ admins = {last.by}
    /\ BootstrapAdmin \notin admins

====
